---- MODULE Spec2Model ----
(***************************************************************************)
(* Model of redis-key-scanner (src/index.js): the RedisKeyScanner          *)
(* constructor's scan, from the first page of redis.scanStream to the      *)
(* summary record.                                                         *)
(*                                                                         *)
(* The redis client (ioredis) is the environment: it delivers the pages of *)
(* the SCAN enumeration as 'data' events, signals 'end', fulfils or        *)
(* rejects each pipeline.exec() promise in any order, and may emit         *)
(* connection 'error' events at any time.  Everything the scanner does in  *)
(* reaction is translated from the handlers of src/index.js.               *)
(*                                                                         *)
(* Encoding of JavaScript values:                                          *)
(*   - an option that may be absent (undefined, NaN under isNaN) is a set: *)
(*     {} when absent, {v} when present with value v;                      *)
(*   - Infinity (the default of limit and scanLimit) is {} as well, so     *)
(*     that `n >= Infinity` is false for every n;                          *)
(*   - a key name is the pair <<page, position>> of its place in the       *)
(*     enumeration; idletime and ttl are integers (ttl -1: no expiry).     *)
(*                                                                         *)
(* What the environment is taken to guarantee:                             *)
(*   - a paused scanStream emits neither 'data' nor 'end' (nothing resumes *)
(*     it), and an ended one emits nothing more;                           *)
(*   - the store does not change during the scan, and every command of a   *)
(*     fulfilled pipeline answers a number.                                *)
(* The handlers run to completion one at a time (one JavaScript thread),   *)
(* so each is one action.                                                  *)
(***************************************************************************)
EXTENDS Integers, Sequences, FiniteSets, TLC

VARIABLES
  construction,        \* the constructor call: its argument, what it threw, the connection
  options,             \* the validated options (src/index.js:117)
  store,               \* the pages SCAN will deliver, each a sequence of key metadata
  nextPage,            \* cursor: index of the next page scanStream delivers
  scanStream,          \* "none" (not created) | "flowing" | "paused" | "ended"
  pipelinePromises,    \* state of each pushed promise: "pending" | "fulfilled" | "rejected"
  atSelectLimit,
  streamKeysScanned,
  streamKeysSelected,
  endScanCalled,       \* the _.once latch of endScan
  awaited,             \* how many promises Promise.all took when endScan ran
  allPromise,          \* Promise.all(...): "none" | "pending" | "fulfilled" | "rejected"
  events,              \* the 'data' and 'end' events the scanner emitted, in order
  evaluations,         \* history: every key the resolution loop evaluated, in order
  errorEmitted,        \* the _.once latch of the redis 'error' handler: 'error' was emitted
  crashed              \* the process was ended by an unhandled rejection

vars == <<construction, options, store, nextPage, scanStream, pipelinePromises, atSelectLimit,
          streamKeysScanned, streamKeysSelected, endScanCalled, awaited,
          allPromise, events, evaluations, errorEmitted, crashed>>

(***************************************************************************)
(* Bounds of the model.                                                    *)
(***************************************************************************)
MaxPages == 3          \* pages in the enumeration
MaxKeys == 2           \* keys in the store, over all its pages
MaxLimit == 2          \* largest finite limit / scanLimit
MaxOneKeyPages == 4    \* pages of a store whose pages hold one key each
MaxScanLimit == 3      \* largest finite scanLimit over such a store
MaxBound == 1          \* largest maxIdle / maxTTL / minIdle / minTTL (seconds)
MaxIdletime == 2       \* largest idletime of a key
MaxTTLValue == 2       \* largest ttl of a key

Infinity == {}

Min(a, b) == IF a <= b THEN a ELSE b

(***************************************************************************)
(* Options.                                                                *)
(***************************************************************************)
hasOption(opts, opt) == opts[opt] # {}

\* isNaN(options[opt]) for a bound that is either absent or a number
isNaN(v) == v = {}

\* n >= lim where lim is a number or Infinity
AtLeast(n, lim) == \E l \in lim : n >= l

checkTTL(opts) ==
  \E opt \in {"noExpiry", "maxTTL", "minTTL"} : hasOption(opts, opt)

(***************************************************************************)
(* The filter condition, without its !atSelectLimit conjunct.              *)
(***************************************************************************)
\* mutant: the noExpiry clause is left out
MatchesFilterWithoutNoExpiry(opts, idletime, ttl) ==
  /\ (isNaN(opts.maxIdle) \/ \A b \in opts.maxIdle : idletime <= b)
  /\ (isNaN(opts.maxTTL) \/ \A b \in opts.maxTTL : ttl <= b)
  /\ (isNaN(opts.minIdle) \/ \A b \in opts.minIdle : idletime >= b)
  /\ (isNaN(opts.minTTL) \/ \A b \in opts.minTTL : ttl >= b)

MatchesFilter(opts, idletime, ttl) ==
  /\ (isNaN(opts.maxIdle) \/ \A b \in opts.maxIdle : idletime <= b)
  /\ (isNaN(opts.maxTTL) \/ \A b \in opts.maxTTL : ttl <= b)
  /\ (isNaN(opts.minIdle) \/ \A b \in opts.minIdle : idletime >= b)
  /\ (isNaN(opts.minTTL) \/ \A b \in opts.minTTL : ttl >= b)
  /\ (~hasOption(opts, "noExpiry") \/ (opts.noExpiry = {TRUE} /\ ttl = -1))

(***************************************************************************)
(* The pipeline of one page: OBJECT IDLETIME for every key, and TTL as     *)
(* well when a TTL-based option is present; exec() answers the commands in *)
(* order from the store.                                                   *)
(***************************************************************************)
RECURSIVE PipelineCommands(_, _, _)
PipelineCommands(page, n, chk) ==
  IF n = 0 THEN <<>>
  ELSE PipelineCommands(page, n - 1, chk)
       \o <<[op |-> "IDLETIME", key |-> <<page, n>>]>>
       \o (IF chk THEN <<[op |-> "TTL", key |-> <<page, n>>]>> ELSE <<>>)

\* results[j][1] of pipeline.exec(): the value answered to the j-th command
ExecResults(cmds, st) ==
  [j \in 1..Len(cmds) |->
     IF cmds[j].op = "IDLETIME"
     THEN st[cmds[j].key[1]][cmds[j].key[2]].idletime
     ELSE st[cmds[j].key[1]][cmds[j].key[2]].ttl]

(***************************************************************************)
(* The 'data' and 'end' events the scanner emits.                          *)
(***************************************************************************)
KeyEvent(key, idletime, ttl) ==
  [type |-> "key", key |-> key, idletime |-> idletime, ttl |-> ttl,
   keysScanned |-> 0, keysSelected |-> 0]

SummaryEvent(scanned, selected) ==
  [type |-> "summary", key |-> <<0, 0>>, idletime |-> 0, ttl |-> {},
   keysScanned |-> scanned, keysSelected |-> selected]

EndEvent ==
  [type |-> "end", key |-> <<0, 0>>, idletime |-> 0, ttl |-> {},
   keysScanned |-> 0, keysSelected |-> 0]

(***************************************************************************)
(* The resolution callback of one batch: _.each(batchKeys, (key, i) => ...)*)
(* A loop state st holds keysSelected, atSelectLimit, the events and the   *)
(* evaluation history so far.                                              *)
(***************************************************************************)
\* mutant: the index as if one command per key had been issued
IdleIdxOneCommandPerKey(chk, i) == i

\* index (0-based, as in the source) of the idletime of the i-th key (0-based)
IdleIdx(chk, i) == IF chk THEN i * 2 ELSE i

\* mutant: the limit counts as reached after any selection
AtSelectLimitAfterAnySelection(selected, limit) == TRUE

\* mutant: > instead of >=
AtSelectLimitAfterStrict(selected, limit) == \E l \in limit : selected > l

\* atSelectLimit = streamKeysSelected >= options.limit
AtSelectLimitAfter(selected, limit) == AtLeast(selected, limit)

\* mutant: a key that matches is selected whether the limit was reached or not
EvaluateKeyIgnoringLimit(st, opts, page, i, results) ==
  LET chk == checkTTL(opts)
      idleIdx == IdleIdx(chk, i - 1)
      idletime == results[idleIdx + 1]
      ttl == IF chk THEN results[idleIdx + 2] ELSE 0
      selected == MatchesFilter(opts, idletime, ttl)
      record == [key |-> <<page, i>>, idletime |-> idletime, ttl |-> ttl,
                 atLimit |-> st.atSelectLimit, selected |-> selected]
  IN IF selected
     THEN [keysSelected |-> st.keysSelected + 1,
           atSelectLimit |-> AtSelectLimitAfter(st.keysSelected + 1, opts.limit),
           events |-> Append(st.events,
                        KeyEvent(<<page, i>>, idletime, IF chk THEN {ttl} ELSE {})),
           evaluations |-> Append(st.evaluations, record)]
     ELSE [st EXCEPT !.evaluations = Append(@, record)]

\* mutant: every evaluated key is counted as selected
EvaluateKeyCountingEveryKey(st, opts, page, i, results) ==
  LET chk == checkTTL(opts)
      idleIdx == IdleIdx(chk, i - 1)
      idletime == results[idleIdx + 1]
      ttl == IF chk THEN results[idleIdx + 2] ELSE 0
      selected == ~st.atSelectLimit /\ MatchesFilter(opts, idletime, ttl)
      record == [key |-> <<page, i>>, idletime |-> idletime, ttl |-> ttl,
                 atLimit |-> st.atSelectLimit, selected |-> selected]
  IN IF selected
     THEN [keysSelected |-> st.keysSelected + 1,
           atSelectLimit |-> AtSelectLimitAfter(st.keysSelected + 1, opts.limit),
           events |-> Append(st.events,
                        KeyEvent(<<page, i>>, idletime, IF chk THEN {ttl} ELSE {})),
           evaluations |-> Append(st.evaluations, record)]
     ELSE [st EXCEPT !.keysSelected = @ + 1,
                     !.evaluations = Append(@, record)]

EvaluateKey(st, opts, page, i, results) ==
  LET chk == checkTTL(opts)
      idleIdx == IdleIdx(chk, i - 1)
      idletime == results[idleIdx + 1]
      \* checkTTL && results[idleIdx + 1][1]: false (0 in a comparison) without checkTTL
      ttl == IF chk THEN results[idleIdx + 2] ELSE 0
      selected == ~st.atSelectLimit /\ MatchesFilter(opts, idletime, ttl)
      record == [key |-> <<page, i>>, idletime |-> idletime, ttl |-> ttl,
                 atLimit |-> st.atSelectLimit, selected |-> selected]
  IN IF selected
     THEN [keysSelected |-> st.keysSelected + 1,
           atSelectLimit |-> AtSelectLimitAfter(st.keysSelected + 1, opts.limit),
           events |-> Append(st.events,
                        KeyEvent(<<page, i>>, idletime, IF chk THEN {ttl} ELSE {})),
           evaluations |-> Append(st.evaluations, record)]
     ELSE [st EXCEPT !.evaluations = Append(@, record)]

\* mutant: the keys of a page are evaluated last to first
RECURSIVE EvaluateBatchReversed(_, _, _, _, _)
EvaluateBatchReversed(st, opts, page, n, results) ==
  IF n = 0 THEN st
  ELSE EvaluateBatchReversed(EvaluateKey(st, opts, page, n, results),
                             opts, page, n - 1, results)

RECURSIVE EvaluateBatch(_, _, _, _, _)
EvaluateBatch(st, opts, page, n, results) ==
  IF n = 0 THEN st
  ELSE EvaluateKey(EvaluateBatch(st, opts, page, n - 1, results),
                   opts, page, n, results)

(***************************************************************************)
(* endScan = _.once(() => Promise.all(pipelinePromises).then(...))         *)
(***************************************************************************)
\* mutant: endScan runs before the page's promise is pushed
PromiseAllSnapshotBeforePush(promises) == Len(promises) - 1

\* the promises Promise.all takes: those pushed so far
PromiseAllSnapshot(promises) == Len(promises)

\* mutant: a settled promise counts, fulfilled or rejected
AllSettled(promises, n) == \A i \in 1..n : promises[i] # "pending"

AllFulfilled(promises, n) == \A i \in 1..n : promises[i] = "fulfilled"

SomeRejected(promises, n) == \E i \in 1..n : promises[i] = "rejected"

endScan(promises) ==
  IF endScanCalled
  THEN UNCHANGED <<endScanCalled, awaited, allPromise>>
  ELSE /\ endScanCalled' = TRUE
       /\ awaited' = PromiseAllSnapshot(promises)
       /\ allPromise' = "pending"

(***************************************************************************)
(* scanStream.on('data', batchKeys => ...)                                 *)
(***************************************************************************)
\* mutant: pages are counted instead of keys
KeysScannedAfterCountingPages(scanned, batchKeys) == scanned + 1

KeysScannedAfter(scanned, batchKeys) == scanned + Len(batchKeys)

\* mutant: only the scan limit stops the scan
ShouldStopIgnoringSelectLimit(atLimit, scanned, scanLimit) ==
  AtLeast(scanned, scanLimit)

\* mutant: > instead of >=
ShouldStopStrict(atLimit, scanned, scanLimit) ==
  atLimit \/ \E l \in scanLimit : scanned > l

\* atSelectLimit || streamKeysScanned >= options.scanLimit
ShouldStop(atLimit, scanned, scanLimit) == atLimit \/ AtLeast(scanned, scanLimit)

ScanData ==
  /\ ~crashed
  /\ scanStream = "flowing"
  /\ nextPage <= Len(store)
  /\ LET batchKeys == store[nextPage]
         scanned == KeysScannedAfter(streamKeysScanned, batchKeys)
         promises == Append(pipelinePromises, "pending")
     IN /\ streamKeysScanned' = scanned
        /\ pipelinePromises' = promises
        /\ nextPage' = nextPage + 1
        /\ IF ShouldStop(atSelectLimit, scanned, options.scanLimit)
           THEN scanStream' = "paused" /\ endScan(promises)
           ELSE UNCHANGED <<scanStream, endScanCalled, awaited, allPromise>>
  /\ UNCHANGED <<construction, options, store, atSelectLimit, streamKeysSelected, events,
                 evaluations, errorEmitted, crashed>>

(***************************************************************************)
(* scanStream.on('end', endScan)                                           *)
(***************************************************************************)
\* mutant: the stream ends without endScan being called
ScanEndWithoutEndScan ==
  /\ ~crashed
  /\ scanStream = "flowing"
  /\ nextPage > Len(store)
  /\ scanStream' = "ended"
  /\ UNCHANGED <<construction, options, store, nextPage, pipelinePromises, atSelectLimit,
                 streamKeysScanned, streamKeysSelected, endScanCalled, awaited,
                 allPromise, events, evaluations, errorEmitted, crashed>>

ScanEnd ==
  /\ ~crashed
  /\ scanStream = "flowing"
  /\ nextPage > Len(store)
  /\ scanStream' = "ended"
  /\ endScan(pipelinePromises)
  /\ UNCHANGED <<construction, options, store, nextPage, pipelinePromises, atSelectLimit,
                 streamKeysScanned, streamKeysSelected, events, evaluations,
                 errorEmitted, crashed>>

(***************************************************************************)
(* pipeline.exec().then(results => ...): the batch of page p is fulfilled  *)
(***************************************************************************)
PipelineResolve(p) ==
  /\ ~crashed
  /\ p \in 1..Len(pipelinePromises)
  /\ pipelinePromises[p] = "pending"
  /\ LET n == Len(store[p])
         results == ExecResults(PipelineCommands(p, n, checkTTL(options)), store)
         st == EvaluateBatch([keysSelected |-> streamKeysSelected,
                              atSelectLimit |-> atSelectLimit,
                              events |-> events,
                              evaluations |-> evaluations],
                             options, p, n, results)
     IN /\ streamKeysSelected' = st.keysSelected
        /\ atSelectLimit' = st.atSelectLimit
        /\ events' = st.events
        /\ evaluations' = st.evaluations
  /\ pipelinePromises' = [pipelinePromises EXCEPT ![p] = "fulfilled"]
  /\ UNCHANGED <<construction, options, store, nextPage, scanStream, streamKeysScanned,
                 endScanCalled, awaited, allPromise, errorEmitted, crashed>>

(***************************************************************************)
(* pipeline.exec() is rejected: the .then callback never runs and nothing  *)
(* handles the rejection.  Depending on the runtime an unhandled rejection *)
(* is only reported (crash = FALSE) or ends the process (crash = TRUE).    *)
(***************************************************************************)
PipelineReject(p, crash) ==
  /\ ~crashed
  /\ p \in 1..Len(pipelinePromises)
  /\ pipelinePromises[p] = "pending"
  /\ pipelinePromises' = [pipelinePromises EXCEPT ![p] = "rejected"]
  /\ crashed' = crash
  /\ UNCHANGED <<construction, options, store, nextPage, scanStream, atSelectLimit,
                 streamKeysScanned, streamKeysSelected, endScanCalled, awaited,
                 allPromise, events, evaluations, errorEmitted>>

(***************************************************************************)
(* Promise.all(pipelinePromises).then(() => { write(summary); end() })     *)
(***************************************************************************)
PromiseAllThen ==
  /\ ~crashed
  /\ allPromise = "pending"
  /\ AllFulfilled(pipelinePromises, awaited)
  /\ allPromise' = "fulfilled"
  /\ events' = events \o <<SummaryEvent(streamKeysScanned, streamKeysSelected),
                           EndEvent>>
  /\ UNCHANGED <<construction, options, store, nextPage, scanStream, pipelinePromises,
                 atSelectLimit, streamKeysScanned, streamKeysSelected,
                 endScanCalled, awaited, evaluations, errorEmitted, crashed>>

\* Promise.all rejects as soon as one of its promises is rejected; its .then
\* has no rejection handler
PromiseAllReject ==
  /\ ~crashed
  /\ allPromise = "pending"
  /\ SomeRejected(pipelinePromises, awaited)
  /\ allPromise' = "rejected"
  /\ UNCHANGED <<construction, options, store, nextPage, scanStream, pipelinePromises,
                 atSelectLimit, streamKeysScanned, streamKeysSelected,
                 endScanCalled, awaited, events, evaluations, errorEmitted,
                 crashed>>

(***************************************************************************)
(* redis.on('error', _.once(err => self.emit('error', err)))               *)
(***************************************************************************)
\* The redis client may emit 'error' any number of times; only the first is
\* passed on.  Nothing else happens: the scan is neither paused nor ended.
RedisError ==
  /\ ~crashed
  /\ construction.redis = "open"
  /\ errorEmitted' = TRUE
  /\ UNCHANGED <<construction, options, store, nextPage, scanStream, pipelinePromises,
                 atSelectLimit, streamKeysScanned, streamKeysSelected,
                 endScanCalled, awaited, allPromise, events, evaluations,
                 crashed>>

(***************************************************************************)
(* Initial states: the state after the constructor returned, for a choice  *)
(* of options and of store contents.                                       *)
(***************************************************************************)
Limits == {Infinity} \cup {{n} : n \in 0..MaxLimit}

Bounds == {{}} \cup {{b} : b \in 0..MaxBound}

Pages(keys) == UNION {[1..n -> keys] : n \in 0..MaxKeys}

RECURSIVE TotalKeys(_, _)
TotalKeys(st, n) == IF n = 0 THEN 0 ELSE TotalKeys(st, n - 1) + Len(st[n])

\* every way to cut at most MaxKeys keys into at most MaxPages pages, empty
\* pages included
Stores(keys) ==
  {st \in UNION {[1..n -> Pages(keys)] : n \in 0..MaxPages} :
     TotalKeys(st, Len(st)) <= MaxKeys}

InitScanner ==
  /\ construction = [called |-> TRUE, thrown |-> "none", redis |-> "open"]
  /\ nextPage = 1
  /\ scanStream = "flowing"
  /\ pipelinePromises = <<>>
  /\ atSelectLimit = FALSE
  /\ streamKeysScanned = 0
  /\ streamKeysSelected = 0
  /\ endScanCalled = FALSE
  /\ awaited = 0
  /\ allPromise = "none"
  /\ events = <<>>
  /\ evaluations = <<>>
  /\ errorEmitted = FALSE
  /\ crashed = FALSE

\* keys that differ in idletime only, scanned with a min-idle filter and
\* every combination of limit and scanLimit
ScanKeys == {[idletime |-> i, ttl |-> -1] : i \in {0, 1}}

ScanOptions ==
  {[limit |-> l, scanLimit |-> s, maxIdle |-> {}, maxTTL |-> {},
    minIdle |-> {1}, minTTL |-> {}, noExpiry |-> {}] :
     l \in Limits, s \in Limits}

Init ==
  /\ store \in Stores(ScanKeys)
  /\ options \in ScanOptions
  /\ InitScanner

(***************************************************************************)
(* Initial states of the scan-limit family: the stores above and the       *)
(* stores of one-key pages (SCAN with page size 1), with a scanLimit of up *)
(* to MaxScanLimit and a select limit that is absent or 1.                 *)
(***************************************************************************)
OneKeyStores ==
  UNION {[1..n -> {<<k>> : k \in ScanKeys}] : n \in 0..MaxOneKeyPages}

ScanLimitOptions ==
  {[limit |-> l, scanLimit |-> s, maxIdle |-> {}, maxTTL |-> {},
    minIdle |-> {1}, minTTL |-> {}, noExpiry |-> {}] :
     l \in {Infinity, {1}},
     s \in {Infinity} \cup {{n} : n \in 0..MaxScanLimit}}

InitScanLimit ==
  /\ store \in Stores(ScanKeys) \cup OneKeyStores
  /\ options \in ScanLimitOptions
  /\ InitScanner

(***************************************************************************)
(* Initial states of the filter family: one key of any idletime and ttl,   *)
(* scanned under every combination of the five filter options (noExpiry    *)
(* absent, true, or present and false), without limits.                    *)
(***************************************************************************)
FilterKeys ==
  {[idletime |-> i, ttl |-> t] : i \in 0..MaxIdletime, t \in -1..MaxTTLValue}

FilterOptions ==
  {[limit |-> Infinity, scanLimit |-> Infinity, maxIdle |-> a, maxTTL |-> b,
    minIdle |-> c, minTTL |-> d, noExpiry |-> e] :
     a \in Bounds, b \in Bounds, c \in Bounds, d \in Bounds,
     e \in {{}, {TRUE}, {FALSE}}}

InitFilter ==
  /\ store \in {<<<<k>>>> : k \in FilterKeys}
  /\ options \in FilterOptions
  /\ InitScanner

Next ==
  \/ ScanData
  \/ ScanEnd
  \/ \E p \in 1..Len(store) : PipelineResolve(p)
  \/ \E p \in 1..Len(store), crash \in BOOLEAN : PipelineReject(p, crash)
  \/ PromiseAllThen
  \/ PromiseAllReject
  \/ RedisError

Spec == Init /\ [][Next]_vars

SpecScanLimit == InitScanLimit /\ [][Next]_vars

SpecFilter == InitFilter /\ [][Next]_vars

(***************************************************************************)
(* Initial states of the batch family: the stores of the first family,     *)
(* with a select limit and a scan limit that are each absent or 1.         *)
(***************************************************************************)
BatchOptions ==
  {[limit |-> l, scanLimit |-> s, maxIdle |-> {}, maxTTL |-> {},
    minIdle |-> {1}, minTTL |-> {}, noExpiry |-> {}] :
     l \in {Infinity, {1}}, s \in {Infinity, {1}}}

InitBatches ==
  /\ store \in Stores(ScanKeys)
  /\ options \in BatchOptions
  /\ InitScanner

SpecBatches == InitBatches /\ [][Next]_vars

(***************************************************************************)
(* Initial states of the alignment family: one page of two keys of any     *)
(* idletime and ttl, scanned with a max-TTL bound, a min-idle bound and    *)
(* noExpiry each absent or present, without limits.                        *)
(***************************************************************************)
AlignOptions ==
  {[limit |-> Infinity, scanLimit |-> Infinity, maxIdle |-> {}, maxTTL |-> b,
    minIdle |-> c, minTTL |-> {}, noExpiry |-> e] :
     b \in Bounds, c \in Bounds, e \in {{}, {TRUE}}}

InitAlign ==
  /\ store \in {<<<<k1, k2>>>> : k1 \in FilterKeys, k2 \in FilterKeys}
  /\ options \in AlignOptions
  /\ InitScanner

SpecAlign == InitAlign /\ [][Next]_vars

(***************************************************************************)
(* The scan under fair scheduling: the stream keeps delivering pages and   *)
(* its end, every pending batch that can be fulfilled eventually is, and   *)
(* the continuation of Promise.all runs once it can.  A batch may still be *)
(* rejected instead.  The stores are those of at most MaxLivePages pages   *)
(* of at most one key.                                                     *)
(***************************************************************************)
MaxLivePages == 2

LiveStores ==
  UNION {[1..n -> {<<>>} \cup {<<k>> : k \in ScanKeys}] : n \in 0..MaxLivePages}

InitLive ==
  /\ store \in LiveStores
  /\ options \in ScanOptions
  /\ InitScanner

Fairness ==
  /\ WF_vars(ScanData)
  /\ WF_vars(ScanEnd)
  /\ \A p \in 1..MaxLivePages : WF_vars(PipelineResolve(p))
  /\ WF_vars(PromiseAllThen)

SpecLive == InitLive /\ [][Next]_vars /\ Fairness

(***************************************************************************)
(* The constructor call itself.  Before it runs, options holds the         *)
(* caller's argument: every value is a JavaScript value                    *)
(* [t |-> type, s |-> its text, n |-> its number], and an option the       *)
(* caller did not pass is Absent.  Validation rewrites options in place,   *)
(* so after a successful call options holds the validated record that the  *)
(* scan reads.                                                             *)
(***************************************************************************)
Absent == [t |-> "absent", s |-> "", n |-> 0]

Undefined == [t |-> "undefined", s |-> "", n |-> 0]

Null == [t |-> "null", s |-> "", n |-> 0]

NaN == [t |-> "NaN", s |-> "", n |-> 0]

Num(n) == [t |-> "number", s |-> "", n |-> n]

Str(s) == [t |-> "string", s |-> s, n |-> 0]

\* _.has(options, opt)
hasOwn(v) == v.t # "absent"

\* !v
Falsy(v) ==
  \/ v.t \in {"absent", "undefined", "null", "NaN"}
  \/ v.t = "number" /\ v.n = 0
  \/ v.t = "string" /\ v.s = ""

\* Number(v), NaN being {}
ToNumber(v) ==
  CASE v.t = "number" -> {v.n}
    [] v.t = "null" -> {0}
    [] v.t = "string" /\ v.s = "" -> {0}
    [] v.t = "string" /\ v.s = "6379" -> {6379}
    [] v.t = "string" /\ v.s = "1" -> {1}
    [] OTHER -> {}

\* timeframeToSeconds(v) of the timeframe-to-seconds package, NaN being {}
timeframeToSeconds(v) ==
  CASE v.t = "string" /\ v.s = "1s" -> {1}
    [] v.t = "string" /\ v.s = "1m" -> {60}
    [] OTHER -> {}

TimeframeOptions == {"maxIdle", "maxTTL", "minIdle", "minTTL"}

NumberOptions == {"scanBatch", "scanLimit", "limit"}

\* the first error the validation throws, in the order of its checks
ValidationError(o) ==
  IF Falsy(o.host) THEN "Host is required"
  ELSE IF ToNumber(o.port) \in {{}, {0}} THEN "Port number is required"
  ELSE IF \E opt \in TimeframeOptions :
            hasOwn(o[opt]) /\ isNaN(timeframeToSeconds(o[opt]))
    THEN "Expected a timeframe"
  ELSE IF \E opt \in NumberOptions :
            hasOwn(o[opt]) /\ isNaN(ToNumber(o[opt]))
    THEN "Must be a number"
  ELSE IF o.unsupported THEN "Unsupported option(s)"
  ELSE "none"

\* this.options after a successful validation
ValidatedOptions(o) ==
  [limit |-> IF hasOwn(o.limit) THEN ToNumber(o.limit) ELSE Infinity,
   scanLimit |-> IF hasOwn(o.scanLimit) THEN ToNumber(o.scanLimit) ELSE Infinity,
   maxIdle |-> timeframeToSeconds(o.maxIdle),
   maxTTL |-> timeframeToSeconds(o.maxTTL),
   minIdle |-> timeframeToSeconds(o.minIdle),
   minTTL |-> timeframeToSeconds(o.minTTL),
   noExpiry |-> {}]

ConstructorConnectingFirst(o) ==
  [called |-> TRUE, thrown |-> ValidationError(o), redis |-> "open"]

\* validation, then new Redis(...) unless validation threw
Constructor(o) ==
  LET err == ValidationError(o)
  IN  [called |-> TRUE, thrown |-> err,
       redis |-> IF err = "none" THEN "open" ELSE "none"]

Construct ==
  /\ ~construction.called
  /\ construction' = Constructor(options)
  /\ IF construction'.thrown = "none"
       THEN /\ options' = ValidatedOptions(options)
            /\ scanStream' = "flowing"
       ELSE UNCHANGED <<options, scanStream>>
  /\ UNCHANGED <<store, nextPage, pipelinePromises, atSelectLimit,
                 streamKeysScanned, streamKeysSelected, endScanCalled,
                 awaited, allPromise, events, evaluations, errorEmitted,
                 crashed>>

Arguments ==
  {[host |-> h, port |-> p, maxIdle |-> a, maxTTL |-> b, minIdle |-> c,
    minTTL |-> d, scanBatch |-> sb, scanLimit |-> sl, limit |-> l,
    unsupported |-> u] :
     h \in {Absent, Str(""), Str("localhost")},
     p \in {Absent, Num(0), Num(6379), Str("6379"), Str("redis")},
     a \in {Absent, Str("1m"), Str("soon")},
     b \in {Absent, Str("1m"), Str("soon")},
     c \in {Absent, Str("1s"), Str("soon")},
     d \in {Absent, Str("1s"), Undefined},
     sb \in {Absent, Num(1), NaN},
     sl \in {Absent, Str("1"), Str("many")},
     l \in {Absent, Num(1), Null, Undefined},
     u \in BOOLEAN}

InitConstruct ==
  /\ store \in {<<<<k>>>> : k \in ScanKeys}
  /\ options \in Arguments
  /\ construction = [called |-> FALSE, thrown |-> "none", redis |-> "none"]
  /\ nextPage = 1
  /\ scanStream = "none"
  /\ pipelinePromises = <<>>
  /\ atSelectLimit = FALSE
  /\ streamKeysScanned = 0
  /\ streamKeysSelected = 0
  /\ endScanCalled = FALSE
  /\ awaited = 0
  /\ allPromise = "none"
  /\ events = <<>>
  /\ evaluations = <<>>
  /\ errorEmitted = FALSE
  /\ crashed = FALSE

NextConstruct == Construct \/ Next

SpecConstruct == InitConstruct /\ [][NextConstruct]_vars

(***************************************************************************)
(* Vocabulary of the properties.                                           *)
(***************************************************************************)
EventIdx(t) == {i \in 1..Len(events) : events[i].type = t}

KeyEventCount == Cardinality(EventIdx("key"))

SummaryEmitted == EventIdx("summary") # {}

Summary == events[CHOOSE i \in EventIdx("summary") : TRUE]

Emitted(key) == \E i \in EventIdx("key") : events[i].key = key

Meta(key) == store[key[1]][key[2]]

StoreKeys ==
  UNION {{<<p, i>> : i \in 1..Len(store[p])} : p \in 1..Len(store)}

\* the selection criteria as the usage text lists them, all of them required
WithinIdleBounds(opts, k) ==
  /\ \A b \in opts.maxIdle : k.idletime <= b
  /\ \A b \in opts.minIdle : k.idletime >= b

WithinTTLBounds(opts, k) ==
  /\ \A b \in opts.maxTTL : k.ttl <= b
  /\ \A b \in opts.minTTL : k.ttl >= b

Failed ==
  errorEmitted \/ SomeRejected(pipelinePromises, Len(pipelinePromises))

\* the process is alive and nothing is left to happen in the scan
ScanOver ==
  /\ ~crashed
  /\ scanStream # "flowing"
  /\ allPromise \in {"fulfilled", "rejected"}
  /\ \A i \in 1..Len(pipelinePromises) : pipelinePromises[i] # "pending"

(***************************************************************************)
(* C1: the summary record is emitted at most once, no selected-key record  *)
(* (and no second summary) is emitted after it, and 'end' is emitted at    *)
(* most once, directly after the summary.                                  *)
(***************************************************************************)
C1_SummaryOnceAndLast ==
  /\ Cardinality(EventIdx("summary")) <= 1
  /\ Cardinality(EventIdx("end")) <= 1
  /\ \A i \in EventIdx("summary") :
       \A j \in 1..Len(events) : j > i => events[j].type = "end"
  /\ \A j \in EventIdx("end") : j > 1 /\ events[j - 1].type = "summary"

\* a scan stopped by the scan limit whose second batch resolved first, both
\* keys selected, summary emitted
C1_Witness ==
  /\ SummaryEmitted
  /\ scanStream = "paused"
  /\ KeyEventCount = 2
  /\ Len(evaluations) = 2
  /\ evaluations[1].key[1] = 2
  /\ events[Len(events)].type = "end"

(***************************************************************************)
(* C2: every scan ends with exactly one terminal signal: never both an     *)
(* 'error' and a summary, and, once nothing is left to happen, not         *)
(* neither.                                                                *)
(***************************************************************************)
C2_ExactlyOneTerminalSignal ==
  /\ ~(errorEmitted /\ SummaryEmitted)
  /\ ScanOver => (errorEmitted \/ SummaryEmitted)

(***************************************************************************)
(* C3: with a finite limit, keysSelected and the number of selected-key    *)
(* records never exceed the limit.                                         *)
(***************************************************************************)
C3_SelectedWithinLimit ==
  \A l \in options.limit : streamKeysSelected <= l /\ KeyEventCount <= l

(***************************************************************************)
(* C4: with limit L >= 1, no scan limit and M keys of the store satisfying *)
(* the filter, a scan that reaches its summary has emitted exactly         *)
(* min(L, M) selected-key records and reports keysSelected = min(L, M).    *)
(***************************************************************************)
MatchingKeys ==
  {k \in StoreKeys : WithinIdleBounds(options, Meta(k))
                       /\ WithinTTLBounds(options, Meta(k))
                       /\ (options.noExpiry = {} \/ Meta(k).ttl = -1)}

C4_SelectsMinOfLimitAndMatches ==
  \A l \in options.limit :
    (l >= 1 /\ options.scanLimit = Infinity /\ SummaryEmitted)
      => /\ KeyEventCount = Min(l, Cardinality(MatchingKeys))
         /\ Summary.keysSelected = Min(l, Cardinality(MatchingKeys))

\* limit 1 over two matching keys in two pages, the second batch resolved
\* first: one record, keysSelected 1
C4_Witness ==
  /\ SummaryEmitted
  /\ options.limit = {1}
  /\ options.scanLimit = Infinity
  /\ Cardinality(MatchingKeys) = 2
  /\ Len(evaluations) = 2
  /\ evaluations[1].key[1] = 2
  /\ KeyEventCount = 1
  /\ Summary.keysSelected = 1

(***************************************************************************)
(* C5 as stated: no page is dispatched after the page whose dispatch made  *)
(* keysScanned >= scanLimit, and over one-key pages with at least          *)
(* scanLimit >= 1 keys in the store the summary reports                    *)
(* keysScanned = scanLimit.                                                *)
(***************************************************************************)
OneKeyPages == \A p \in 1..Len(store) : Len(store[p]) = 1

NoDispatchPastScanLimit ==
  \A l \in options.scanLimit :
    \A n \in 1..Len(pipelinePromises) - 1 : TotalKeys(store, n) < l

C5_Original ==
  /\ NoDispatchPastScanLimit
  /\ \A l \in options.scanLimit :
       (l >= 1 /\ OneKeyPages /\ Len(store) >= l /\ SummaryEmitted)
         => Summary.keysScanned = l

(***************************************************************************)
(* C5 amended: the same, the summary's keysScanned = scanLimit being       *)
(* claimed when no select limit is configured; with a select limit the     *)
(* scan may stop earlier, and keysScanned <= scanLimit.                    *)
(***************************************************************************)
C5_StopsAtScanLimit ==
  /\ NoDispatchPastScanLimit
  /\ \A l \in options.scanLimit :
       (l >= 1 /\ OneKeyPages /\ Len(store) >= l /\ SummaryEmitted)
         => /\ Summary.keysScanned <= l
            /\ options.limit = Infinity => Summary.keysScanned = l

\* scanLimit 2 over three one-key pages none of which is selected: two pages
\* dispatched, keysScanned 2
C5_Witness ==
  /\ SummaryEmitted
  /\ options.scanLimit = {2}
  /\ options.limit = Infinity
  /\ OneKeyPages
  /\ Len(store) = 3
  /\ Len(pipelinePromises) = 2
  /\ scanStream = "paused"
  /\ KeyEventCount = 0
  /\ Summary.keysScanned = 2

(***************************************************************************)
(* C6: keysScanned never decreases; it grows by the page length in the     *)
(* step that dispatches a page and in no other step (so it always equals   *)
(* the total length of the pages dispatched, resolved or not); the summary *)
(* reports that total.                                                     *)
(***************************************************************************)
C6_KeysScannedCountsDispatchedKeys ==
  /\ [][/\ streamKeysScanned' >= streamKeysScanned
        /\ Len(pipelinePromises') = Len(pipelinePromises) + 1
             => streamKeysScanned' =
                  streamKeysScanned + Len(store[Len(pipelinePromises')])
        /\ Len(pipelinePromises') = Len(pipelinePromises)
             => streamKeysScanned' = streamKeysScanned]_vars
  /\ [](streamKeysScanned = TotalKeys(store, Len(pipelinePromises)))
  /\ [](SummaryEmitted =>
          Summary.keysScanned = TotalKeys(store, Len(pipelinePromises)))

\* a page of two keys and an empty page dispatched, summary with keysScanned 2
C6_Witness ==
  /\ SummaryEmitted
  /\ Len(pipelinePromises) = 2
  /\ Len(store[1]) = 2
  /\ Len(store[2]) = 0
  /\ Summary.keysScanned = 2

(***************************************************************************)
(* C7 as stated: with noExpiry configured, a key evaluated while the       *)
(* select limit is not reached is selected iff its ttl is -1, whatever the *)
(* idle-time bounds (stated here for options without TTL bounds).          *)
(***************************************************************************)
C7_Original ==
  \A n \in 1..Len(evaluations) :
    (/\ options.noExpiry = {TRUE}
     /\ options.maxTTL = {}
     /\ options.minTTL = {}
     /\ ~evaluations[n].atLimit)
      => (Emitted(evaluations[n].key) <=> Meta(evaluations[n].key).ttl = -1)

(***************************************************************************)
(* C7 amended: with noExpiry configured (true), a key evaluated while the  *)
(* select limit is not reached is selected iff its ttl is -1 and it also   *)
(* satisfies every other configured bound, the idle-time bounds included.  *)
(***************************************************************************)
C7_NoExpiryAndOtherBounds ==
  \A n \in 1..Len(evaluations) :
    (options.noExpiry = {TRUE} /\ ~evaluations[n].atLimit)
      => (Emitted(evaluations[n].key)
            <=> /\ Meta(evaluations[n].key).ttl = -1
                /\ WithinIdleBounds(options, Meta(evaluations[n].key))
                /\ WithinTTLBounds(options, Meta(evaluations[n].key)))

\* noExpiry and minIdle 1: a key without expiry but idle for 0 s was
\* evaluated and not selected, and the scan reached its summary
C7_Witness ==
  /\ options.noExpiry = {TRUE}
  /\ options.minIdle = {1}
  /\ Len(evaluations) = 1
  /\ Meta(evaluations[1].key).ttl = -1
  /\ Meta(evaluations[1].key).idletime = 0
  /\ ~Emitted(evaluations[1].key)
  /\ SummaryEmitted

(***************************************************************************)
(* C8: a key evaluated while atSelectLimit is false is selected iff it is  *)
(* within every configured bound: idletime <= maxIdle, ttl <= maxTTL,      *)
(* idletime >= minIdle, ttl >= minTTL, and (noExpiry absent or ttl = -1).  *)
(***************************************************************************)
C8_SelectedIffWithinBounds ==
  \A n \in 1..Len(evaluations) :
    ~evaluations[n].atLimit
      => (Emitted(evaluations[n].key)
            <=> /\ WithinIdleBounds(options, Meta(evaluations[n].key))
                /\ WithinTTLBounds(options, Meta(evaluations[n].key))
                /\ (options.noExpiry = {}
                      \/ Meta(evaluations[n].key).ttl = -1))

(***************************************************************************)
(* C9: once a dispatched batch fetch has failed, no summary record and no  *)
(* 'end' has been or will be emitted.                                      *)
(***************************************************************************)
C9_NoSummaryAfterFetchFailure ==
  SomeRejected(pipelinePromises, Len(pipelinePromises))
    => EventIdx("summary") = {} /\ EventIdx("end") = {}

\* the first page's fetch failed, the second page's batch resolved and its
\* key was emitted, the enumeration ended, and Promise.all was rejected
C9_Witness ==
  /\ pipelinePromises = <<"rejected", "fulfilled">>
  /\ scanStream = "ended"
  /\ allPromise = "rejected"
  /\ KeyEventCount = 1
  /\ ~crashed

(***************************************************************************)
(* C10: after a connection error or a batch fetch failure no further page  *)
(* is dispatched and no further selected-key record is emitted.            *)
(***************************************************************************)
C10_AbortsImmediately ==
  [][Failed => /\ Len(pipelinePromises') = Len(pipelinePromises)
               /\ KeyEventCount' = KeyEventCount]_vars

(***************************************************************************)
(* C12: a constructor call whose argument has no host, a port that is not  *)
(* a non-zero number, a timeframe bound that is not a timeframe, a         *)
(* scanBatch, scanLimit or limit that is not a number, or an unsupported   *)
(* option, throws without opening a connection; and after a throw no       *)
(* connection is open, no page was requested and no event was emitted.     *)
(***************************************************************************)
InvalidArguments(o) ==
  \/ o.host \in {Absent, Undefined, Str("")}
  \/ ~(o.port.t = "number" /\ o.port.n # 0) /\ o.port # Str("6379")
  \/ \E opt \in TimeframeOptions : o[opt] \notin {Absent, Str("1s"), Str("1m")}
  \/ \E opt \in NumberOptions :
       o[opt] \in {NaN, Undefined} \/ (o[opt].t = "string" /\ o[opt].s \notin {"", "1", "6379"})
  \/ o.unsupported

NothingStarted ==
  /\ construction.redis = "none"
  /\ scanStream = "none"
  /\ nextPage = 1
  /\ pipelinePromises = <<>>
  /\ events = <<>>
  /\ ~errorEmitted

SummaryThenEnd ==
  /\ Len(events) >= 2
  /\ events[Len(events) - 1].type = "summary"
  /\ events[Len(events)].type = "end"

C11_FairScanTerminates ==
  /\ ([]~SomeRejected(pipelinePromises, Len(pipelinePromises))) => <>SummaryThenEnd
  /\ [][SummaryEmitted =>
          UNCHANGED <<construction, options, store, nextPage, scanStream,
                      pipelinePromises, atSelectLimit, streamKeysScanned,
                      streamKeysSelected, endScanCalled, awaited, allPromise,
                      events, evaluations, crashed>>]_vars

\* the stream ended after two pages, both batches were fulfilled and the
\* summary and 'end' followed the one selected key
C11_Witness ==
  /\ SummaryThenEnd
  /\ scanStream = "ended"
  /\ Len(pipelinePromises) = MaxLivePages
  /\ AllFulfilled(pipelinePromises, Len(pipelinePromises))
  /\ Len(events) = 3

(***************************************************************************)
(* C13: when the summary has been emitted every dispatched batch has been  *)
(* fulfilled, the batch of the page that stopped the scan included, and    *)
(* once endScan has fixed the promises it awaits no further batch is       *)
(* dispatched: the awaited promises are all the promises there are.        *)
(***************************************************************************)
C13_SummaryAfterEveryBatch ==
  /\ SummaryEmitted =>
       \A p \in 1..Len(pipelinePromises) : pipelinePromises[p] = "fulfilled"
  /\ endScanCalled => awaited = Len(pipelinePromises)

\* the scan limit paused the stream at the second of three pages, the first
\* being empty, and the summary followed the fulfilment of both batches
C13_Witness ==
  /\ SummaryEmitted
  /\ scanStream = "paused"
  /\ options.scanLimit = {1}
  /\ Len(pipelinePromises) = 2
  /\ Len(store) = 3
  /\ Len(evaluations) = 1
  /\ evaluations[1].key = <<2, 1>>

(***************************************************************************)
(* C14: the selected-key records come in the order in which the batches    *)
(* were fulfilled: the records of one batch are contiguous and in the      *)
(* page's key order, and the records of a batch fulfilled earlier precede  *)
(* those of a batch fulfilled later, whatever the order of dispatch.       *)
(***************************************************************************)
\* position in the evaluation history, the order in which batches were
\* fulfilled and their keys visited
EvaluationIdx(key) == CHOOSE n \in 1..Len(evaluations) : evaluations[n].key = key

EvaluationsOf(key) == {n \in 1..Len(evaluations) : evaluations[n].key = key}

RecordsOf(key) == {i \in EventIdx("key") : events[i].key = key}

Fulfilled(p) == p <= Len(pipelinePromises) /\ pipelinePromises[p] = "fulfilled"

C15_EvaluatedExactlyOnce ==
  /\ \A key \in StoreKeys :
       /\ Cardinality(EvaluationsOf(key)) = IF Fulfilled(key[1]) THEN 1 ELSE 0
       /\ Cardinality(RecordsOf(key)) <= 1
  /\ \A n \in 1..Len(evaluations) :
       LET e == evaluations[n]
       IN  /\ e.key \in StoreKeys
           /\ Emitted(e.key) <=>
                /\ ~e.atLimit
                /\ WithinIdleBounds(options, Meta(e.key))
                /\ WithinTTLBounds(options, Meta(e.key))
  /\ \A i \in EventIdx("key") :
       /\ events[i].key \in StoreKeys
       /\ Fulfilled(events[i].key[1])

\* a page of two matching keys evaluated under limit 1: the first has a
\* record, the second was evaluated at the limit and has none
C15_Witness ==
  /\ options.limit = {1}
  /\ Len(evaluations) = 2
  /\ evaluations[1].key = <<1, 1>> /\ evaluations[1].selected
  /\ evaluations[2].key = <<1, 2>> /\ evaluations[2].atLimit
  /\ Meta(<<1, 2>>).idletime = 1
  /\ ~Emitted(<<1, 2>>)

(***************************************************************************)
(* C16: without a select limit the outcome of a scan that emits its        *)
(* summary does not depend on the order in which the batches are           *)
(* fulfilled: the pages dispatched are the pages up to the first at which  *)
(* the scan limit is reached, the selected keys are the keys of those      *)
(* pages within the configured bounds, and the summary counts the keys of  *)
(* those pages and the selected keys.                                      *)
(***************************************************************************)
\* the pages of the store up to the first that reaches the scan limit
PagesUpToScanLimit ==
  CHOOSE n \in 0..Len(store) :
    /\ n = Len(store) \/ (n >= 1 /\ AtLeast(TotalKeys(store, n), options.scanLimit))
    /\ \A m \in 1..(n - 1) : ~AtLeast(TotalKeys(store, m), options.scanLimit)

KeysWithinBoundsUpTo(n) ==
  {key \in StoreKeys :
     /\ key[1] <= n
     /\ WithinIdleBounds(options, Meta(key))
     /\ WithinTTLBounds(options, Meta(key))}

C16_OutcomeIndependentOfResolutionOrder ==
  (options.limit = Infinity /\ SummaryEmitted) =>
    /\ Len(pipelinePromises) = PagesUpToScanLimit
    /\ {events[i].key : i \in EventIdx("key")} = KeysWithinBoundsUpTo(PagesUpToScanLimit)
    /\ Summary.keysScanned = TotalKeys(store, PagesUpToScanLimit)
    /\ Summary.keysSelected = Cardinality(KeysWithinBoundsUpTo(PagesUpToScanLimit))

\* three pages, no limits, the batches of the two one-key pages fulfilled
\* last to first, both keys selected
C16_Witness ==
  /\ options.limit = Infinity /\ options.scanLimit = Infinity
  /\ SummaryEmitted
  /\ Len(store) = 3
  /\ Len(events) = 4
  /\ events[1].key = <<3, 1>>
  /\ events[2].key = <<1, 1>>
  /\ Summary.keysSelected = 2
  /\ Summary.keysScanned = 2

(***************************************************************************)
(* C19: atSelectLimit, once true, stays true; while it is true no key is   *)
(* selected; a page dispatched while it is true pauses the stream and      *)
(* calls endScan, and a paused stream delivers no page, so that at most    *)
(* one page is dispatched after the limit is reached; and the step that    *)
(* reaches the limit leaves the stream and endScan as they are.            *)
(***************************************************************************)
C19_BoundedWorkAfterSelectLimit ==
  /\ [][atSelectLimit =>
          /\ atSelectLimit'
          /\ streamKeysSelected' = streamKeysSelected
          /\ KeyEventCount' = KeyEventCount
          /\ Len(pipelinePromises') > Len(pipelinePromises) =>
               /\ Len(pipelinePromises') = Len(pipelinePromises) + 1
               /\ scanStream' = "paused"
               /\ endScanCalled']_vars
  /\ [][scanStream = "paused" =>
          /\ Len(pipelinePromises') = Len(pipelinePromises)
          /\ scanStream' = "paused"]_vars
  /\ [][(~atSelectLimit /\ atSelectLimit') =>
          /\ scanStream' = scanStream
          /\ endScanCalled' = endScanCalled
          /\ Len(pipelinePromises') = Len(pipelinePromises)]_vars

\* limit 1 was reached in the batch of the first page while the stream was
\* flowing; the second of three pages was then dispatched and paused the
\* stream, and its matching key was not selected
C19_Witness ==
  /\ options.limit = {1} /\ options.scanLimit = Infinity
  /\ atSelectLimit
  /\ scanStream = "paused"
  /\ Len(store) = 3
  /\ Len(pipelinePromises) = 2
  /\ Len(evaluations) = 2
  /\ evaluations[1].key = <<1, 1>> /\ evaluations[1].selected
  /\ evaluations[2].key = <<2, 1>> /\ evaluations[2].atLimit
  /\ Meta(<<2, 1>>).idletime = 1

(***************************************************************************)
(* C20: the number of selected-key records emitted equals                  *)
(* streamKeysSelected, which is at most the number of keys of the batches  *)
(* fulfilled so far, which is at most streamKeysScanned; and the summary's *)
(* keysSelected is the number of selected-key records.                     *)
(***************************************************************************)
KeysOfFulfilledBatches == Cardinality({key \in StoreKeys : Fulfilled(key[1])})

C20_CountersConsistent ==
  /\ KeyEventCount = streamKeysSelected
  /\ streamKeysSelected <= KeysOfFulfilledBatches
  /\ KeysOfFulfilledBatches <= streamKeysScanned
  /\ SummaryEmitted => Summary.keysSelected = KeyEventCount

\* two pages scanned, the batch of the second fulfilled and that of the
\* first pending: one record, one key resolved, two keys scanned
C20_Witness ==
  /\ streamKeysScanned = 2
  /\ KeysOfFulfilledBatches = 1
  /\ streamKeysSelected = 1
  /\ KeyEventCount = 1
  /\ Len(pipelinePromises) = 2
  /\ pipelinePromises[1] = "pending"

(***************************************************************************)
(* C17: the idletime (and, when noExpiry, maxTTL or minTTL is configured,  *)
(* the ttl) with which the i-th key of a page is evaluated and emitted is  *)
(* that of the i-th key itself, with one command per key or with two; the  *)
(* ttl is asked for, and is part of the record, exactly when one of those  *)
(* three options is configured.                                            *)
(***************************************************************************)
TTLConfigured ==
  options.noExpiry # {} \/ options.maxTTL # {} \/ options.minTTL # {}

TTLCommands(p) ==
  LET cmds == PipelineCommands(p, Len(store[p]), checkTTL(options))
  IN  {j \in 1..Len(cmds) : cmds[j].op = "TTL"}

C18_NoExpiryKeyNotWithinMaxTTL ==
  \A n \in 1..Len(evaluations) :
    (options.maxTTL # {} /\ options.noExpiry = {}
       /\ Meta(evaluations[n].key).ttl = -1)
      => ~Emitted(evaluations[n].key)

====
